---- MODULE Spec2Model ----
(***************************************************************************)
(* Model of sage.categories.coalgebras_with_basis and                      *)
(* sage.categories.algebras_with_basis.                                    *)
(*                                                                         *)
(* An element of a module with basis is its dictionary of monomial         *)
(* coefficients: a function from the indices of its support to non-zero    *)
(* coefficients.  The index of a basis element of a tensor product is the  *)
(* tuple of the indices of its factors; the tensor constructor flattens,   *)
(* so an index of the module itself is written as a tuple of length one.   *)
(***************************************************************************)
EXTENDS Integers, Sequences, FiniteSets

\* parent: the parent the call is made on; op: the method called ("new"
\* before the call); self, n: the element and the integer it is called
\* with; res: what it returns or raises.  A behaviour is the construction
\* of a parent followed by one call: parents and elements are immutable,
\* and a call leaves nothing behind but cached values equal to what the
\* method computes.
VARIABLES parent, op, self, n, res

vars == <<parent, op, self, n, res>>

\* ------------------------------------------------------------------ bounds
\* Largest number of coproduct iterations asked for.
MaxN == 4
\* Coefficients of the elements the methods are called on: -MaxCoef..MaxCoef.
MaxCoef == 1

\* ----------------------------------------------------- modules with basis
Zero == [k \in {} |-> 0]

monomial(k) == [j \in {k} |-> 1]

term(k, c) == [j \in {k} |-> c]

Coef(x, k) == IF k \in DOMAIN x THEN x[k] ELSE 0

\* The element with coefficient v[k] at every k of the domain of v, zeros
\* removed.
FromDict(v) == [k \in {j \in DOMAIN v : v[j] # 0} |-> v[k]]

RECURSIVE SumOver(_, _)
SumOver(f, S) ==
    IF S = {} THEN 0
    ELSE LET m == CHOOSE m \in S : TRUE
         IN  f[m] + SumOver(f, S \ {m})

\* linear_combination((F[m], t[m]) for m in the support of t)
linear_combination(F, t) ==
    LET K == UNION {DOMAIN F[m] : m \in DOMAIN t}
        v == [k \in K |-> SumOver([m \in DOMAIN t |-> t[m] * Coef(F[m], k)], DOMAIN t)]
    IN  FromDict(v)

\* tensor([x, y]) of two elements: indices are concatenated, coefficients
\* multiplied.
tensor(x, y) ==
    LET v == [k \in {a \o b : a \in DOMAIN x, b \in DOMAIN y} |->
                LET a == CHOOSE a \in DOMAIN x :
                             Len(a) <= Len(k) /\ SubSeq(k, 1, Len(a)) = a
                    b == SubSeq(k, Len(a) + 1, Len(k))
                IN  x[a] * y[b]]
    IN  FromDict(v)

\* The morphism of Hom(A, tensor([A, A])) given on the basis by the table T,
\* applied to x (extension by linearity).
module_morphism(T, x) ==
    linear_combination([m \in DOMAIN x |-> T[m[1]]], x)

\* ------------------------------------------------------------ results
Ok(v) == [tag |-> "ok", val |-> v]

Raise(e) == [tag |-> e, val |-> Zero]

\* ------------------------------------------------ CoalgebrasWithBasis
\* coproduct trying coproduct_by_coercion first.
coproduct_coercion_first(P) ==
    IF P.has_coproduct_by_coercion
    THEN [tag |-> "by_coercion", table |-> P.coproduct_by_coercion]
    ELSE IF P.has_coproduct_on_basis
         THEN [tag |-> "on_basis", table |-> P.coproduct_on_basis]
         ELSE [tag |-> "None", table |-> <<>>]

\* ParentMethods.coproduct (lazy attribute): the morphism extending
\* coproduct_on_basis by linearity if that method is implemented, else
\* coproduct_by_coercion if the parent has it, else None.  The attribute
\* keeps the value computed at its first use; a parent never changes, so
\* every use yields this value.
coproduct(P) ==
    IF P.has_coproduct_on_basis
    THEN [tag |-> "on_basis", table |-> P.coproduct_on_basis]
    ELSE IF P.has_coproduct_by_coercion
         THEN [tag |-> "by_coercion", table |-> P.coproduct_by_coercion]
         ELSE [tag |-> "None", table |-> <<>>]

\* self.coproduct() of an element: self.parent().coproduct(self), D being the
\* value of the parent's coproduct attribute.
element_coproduct(D, x) == module_morphism(D.table, x)

\* The pairs of basis elements of the terms of t, an element of
\* tensor([A, A]).
MonomialPairs(t) ==
    {<<monomial(<<m[1]>>), monomial(<<m[2]>>)>> : m \in DOMAIN t}

\* f, a function of pairs of elements, applied to the pairs of basis
\* elements of the terms of t and extended by linearity.
apply_multilinear_morphism(t, f) ==
    linear_combination(
        [m \in DOMAIN t |-> f[<<monomial(<<m[1]>>), monomial(<<m[2]>>)>>]], t)

\* fn with the rounding of cn for even k.
fn_rounded_up(k) == k \div 2

fn(k) == (k - 1) \div 2

\* cn without the case of an even k.
cn_odd_only(k) == (k - 1) \div 2

cn(k) == IF k % 2 # 0 THEN (k - 1) \div 2 ELSE k \div 2

RECURSIVE coproduct_iterated(_, _, _)

\* split with cn coproducts applied to both factors.
split_cn_twice(D, a, b, k) ==
    tensor(coproduct_iterated(D, a, cn(k)).val,
           coproduct_iterated(D, b, cn(k)).val)

\* The lambda split of coproduct_iterated(k).
split(D, a, b, k) ==
    tensor(coproduct_iterated(D, a, fn(k)).val,
           coproduct_iterated(D, b, cn(k)).val)

\* coproduct_iterated returning self for k = 1 as well.
coproduct_iterated_late_base(D, x, k) ==
    IF k < 0 THEN Raise("ValueError")
    ELSE IF k <= 1 THEN Ok(x)
    ELSE IF D.tag = "None" THEN Raise("TypeError")
    ELSE LET t == element_coproduct(D, x)
             f == [ab \in MonomialPairs(t) |-> split(D, ab[1], ab[2], k)]
         IN  Ok(apply_multilinear_morphism(t, f))

\* x.coproduct_iterated(k), D being the parent's coproduct attribute;
\* x.coproduct() raises TypeError when the attribute is None.
coproduct_iterated(D, x, k) ==
    IF k < 0 THEN Raise("ValueError")
    ELSE IF k = 0 THEN Ok(x)
    ELSE IF D.tag = "None" THEN Raise("TypeError")
    ELSE IF k = 1 THEN Ok(element_coproduct(D, x))
    ELSE LET t == element_coproduct(D, x)
             f == [ab \in MonomialPairs(t) |-> split(D, ab[1], ab[2], k)]
         IN  Ok(apply_multilinear_morphism(t, f))

\* ------------------------------------------------- coalgebras with basis
\* Indices of the basis of tensor([A, A]) for A with basis indices B.
TensorKeys(B) == {<<a, b>> : a \in B, b \in B}

\* The elements with support in K and coefficients in C.
ElementsOver(K, C) == {FromDict(v) : v \in [K -> C]}

\* (coproduct (x) id) o coproduct  =  (id (x) coproduct) o coproduct  on the
\* basis: the axiom of the category Coalgebras.
IsCoassociative(B, T) ==
    \A i \in B :
        linear_combination(
            [m \in DOMAIN T[i] |-> tensor(T[m[1]], monomial(<<m[2]>>))], T[i])
      = linear_combination(
            [m \in DOMAIN T[i] |-> tensor(monomial(<<m[1]>>), T[m[2]])], T[i])

Basis2 == {0, 1}

\* Every coproduct_on_basis on two basis elements with coefficients 0 or 1
\* that is coassociative.
SmallTables ==
    {T \in [Basis2 -> ElementsOver(TensorKeys(Basis2), {0, 1})] :
        IsCoassociative(Basis2, T)}

Basis3 == {0, 1, 2}

\* The divided-power coalgebra on x^0, x^1, x^2:
\* coproduct(x^i) = sum over a + b = i of binomial(i, a) x^a # x^b.
Binomial ==
    [i \in Basis3 |->
        FromDict([k \in TensorKeys(Basis3) |->
            IF k[1] + k[2] # i THEN 0
            ELSE IF i = 2 /\ k[1] = 1 THEN 2 ELSE 1])]

Twice(T) == [i \in DOMAIN T |-> [k \in DOMAIN T[i] |-> 2 * T[i][k]]]

Coalgebra(B, onBasis, T, byCoercion, U) ==
    [kind |-> "coalgebra", basis |-> B,
     has_coproduct_on_basis |-> onBasis, coproduct_on_basis |-> T,
     has_coproduct_by_coercion |-> byCoercion, coproduct_by_coercion |-> U]

\* The tables given to the parents that have coproduct_by_coercion: those
\* whose basis element 0 is group-like.
CoercionTables == {T \in SmallTables : T[0] = monomial(<<0, 0>>)}

\* The parents of CoalgebrasWithBasis: coproduct_on_basis is optional, and
\* so is coproduct_by_coercion; a parent that has both is given two
\* different coproducts, so that the one chosen shows in the results.
CoalgebraParents ==
    {Coalgebra(Basis2, TRUE, T, FALSE, <<>>) : T \in SmallTables}
      \cup {Coalgebra(Basis3, TRUE, Binomial, FALSE, <<>>)}
      \cup {Coalgebra(Basis2, TRUE, T, TRUE, Twice(T)) : T \in CoercionTables}
      \cup {Coalgebra(Basis2, FALSE, <<>>, TRUE, T) : T \in CoercionTables}
      \cup {Coalgebra(Basis2, FALSE, <<>>, FALSE, <<>>)}

\* The elements of the parent P the methods are called on.
Elements(P) == ElementsOver({<<i>> : i \in P.basis}, -MaxCoef .. MaxCoef)

InitCoalgebra ==
    /\ parent \in CoalgebraParents
    /\ op = "new"
    /\ self = Zero
    /\ n = 0
    /\ res = Ok(Zero)

\* parent.coproduct(x): the lazy attribute, called on x.  Calling None
\* raises TypeError.
Coproduct(x) ==
    LET D == coproduct(parent)
    IN  /\ op = "new"
        /\ op' = "coproduct"
        /\ self' = x
        /\ n' = 0
        /\ res' = IF D.tag = "None" THEN Raise("TypeError")
                  ELSE Ok(element_coproduct(D, x))
        /\ UNCHANGED parent

\* x.coproduct_iterated(k)
CoproductIterated(x, k) ==
    /\ op = "new"
    /\ op' = "coproduct_iterated"
    /\ self' = x
    /\ n' = k
    /\ res' = coproduct_iterated(coproduct(parent), x, k)
    /\ UNCHANGED parent

\* The default value of the argument n of coproduct_iterated.
DefaultN == 1

\* x.coproduct_iterated()
CoproductIteratedDefault(x) ==
    /\ op = "new"
    /\ op' = "coproduct_iterated()"
    /\ self' = x
    /\ n' = DefaultN
    /\ res' = coproduct_iterated(coproduct(parent), x, DefaultN)
    /\ UNCHANGED parent

NextCoalgebra ==
    \/ \E x \in Elements(parent) : Coproduct(x)
    \/ \E x \in Elements(parent) : \E k \in -1 .. MaxN : CoproductIterated(x, k)
    \/ \E x \in Elements(parent) : CoproductIteratedDefault(x)

SpecCoalgebra == InitCoalgebra /\ [][NextCoalgebra]_vars

\* ---------------------------------------------- claims on the coalgebras
IsIterated == op \in {"coproduct_iterated", "coproduct_iterated()"}

\* The coproduct applied to factor p of every term of t.
CoproductAt(D, t, p) ==
    linear_combination(
        [m \in DOMAIN t |->
            tensor(tensor(monomial(SubSeq(m, 1, p - 1)), D.table[m[p]]),
                   monomial(SubSeq(m, p + 1, Len(m))))], t)

\* k coproducts, each applied to the first factor.
RECURSIVE IteratedAtFirst(_, _, _)
IteratedAtFirst(D, x, k) ==
    IF k = 0 THEN x ELSE CoproductAt(D, IteratedAtFirst(D, x, k - 1), 1)

\* k coproducts, each applied to the last factor.
RECURSIVE IteratedAtLast(_, _, _)
IteratedAtLast(D, x, k) ==
    IF k = 0 THEN x ELSE CoproductAt(D, IteratedAtLast(D, x, k - 1), k)

\* C1: on a coassociative coalgebra, x.coproduct_iterated(n) for n >= 0 is
\* the coproduct applied n times to x, always to the first factor or always
\* to the last one: same terms, same coefficients.
C1_IteratedIsRepeatedCoproduct ==
    ( /\ IsIterated
      /\ n >= 0
      /\ coproduct(parent).tag # "None"
      /\ IsCoassociative(parent.basis, coproduct(parent).table) ) =>
        /\ res = Ok(IteratedAtFirst(coproduct(parent), self, n))
        /\ res = Ok(IteratedAtLast(coproduct(parent), self, n))

C1_Witness ==
    /\ op = "coproduct_iterated"
    /\ n = 4
    /\ parent.basis = Basis3
    /\ parent.has_coproduct_on_basis
    /\ IsCoassociative(parent.basis, coproduct(parent).table)
    /\ self = monomial(<<2>>)
    /\ res.tag = "ok"
    /\ Coef(res.val, <<0, 1, 0, 1, 0>>) = 2
    /\ res = Ok(IteratedAtFirst(coproduct(parent), self, n))

\* What self.coproduct() returns or raises.
SelfCoproduct ==
    IF coproduct(parent).tag = "None" THEN Raise("TypeError")
    ELSE Ok(element_coproduct(coproduct(parent), self))

\* C2: coproduct_iterated(0) returns self; coproduct_iterated() and
\* coproduct_iterated(1) return self.coproduct().
C2_BaseCases ==
    /\ (op = "coproduct_iterated" /\ n = 0) => res = Ok(self)
    /\ (op = "coproduct_iterated" /\ n = 1) => res = SelfCoproduct
    /\ op = "coproduct_iterated()" => res = SelfCoproduct

C2_Witness ==
    /\ op = "coproduct_iterated()"
    /\ parent.basis = Basis3
    /\ self = monomial(<<2>>)
    /\ res = Ok(Binomial[2])
    /\ res # Ok(self)

\* C3: every term of x.coproduct_iterated(n) has n + 1 factors, and for
\* n >= 2 the counts fn and cn of the recursive calls add up to n - 1.
C3_FactorCount ==
    IsIterated =>
        /\ res.tag = "ok" => \A k \in DOMAIN res.val : Len(k) = n + 1
        /\ n >= 2 => fn(n) + cn(n) = n - 1

C3_Witness ==
    /\ op = "coproduct_iterated"
    /\ n = 4
    /\ res.tag = "ok"
    /\ Cardinality(DOMAIN res.val) >= 2
    /\ \A k \in DOMAIN res.val : Len(k) = 5

\* C4: for a group-like basis element g, g.coproduct_iterated(n) is the
\* single term g # ... # g with n + 1 factors and coefficient 1.
C4_GroupLike ==
    \A g \in parent.basis :
        ( /\ op = "coproduct_iterated"
          /\ n >= 0
          /\ coproduct(parent).tag # "None"
          /\ element_coproduct(coproduct(parent), monomial(<<g>>))
                = monomial(<<g, g>>)
          /\ self = monomial(<<g>>) )
        => res = Ok(monomial([i \in 1 .. n + 1 |-> g]))

C4_Witness ==
    /\ op = "coproduct_iterated"
    /\ n = 3
    /\ coproduct(parent).tag = "on_basis"
    /\ parent.coproduct_on_basis[1] = monomial(<<1, 1>>)
    /\ self = monomial(<<1>>)
    /\ res = Ok(monomial(<<1, 1, 1, 1>>))

\* The extension by linearity of the table T to x, coefficient by
\* coefficient: sum of x[i] * T[i].
ByLinearity(T, x, B) ==
    FromDict([k \in TensorKeys(B) |->
        SumOver([i \in B |-> Coef(x, <<i>>) * Coef(T[i], k)], B)])

\* C8: parent.coproduct is the extension by linearity of coproduct_on_basis
\* when that is implemented, also when coproduct_by_coercion exists; else
\* it is coproduct_by_coercion when the parent has it.
C8_CoproductChoice ==
    op = "coproduct" =>
        IF parent.has_coproduct_on_basis
        THEN res = Ok(ByLinearity(parent.coproduct_on_basis, self, parent.basis))
        ELSE parent.has_coproduct_by_coercion =>
               res = Ok(ByLinearity(parent.coproduct_by_coercion, self,
                                    parent.basis))

C8_Witness ==
    /\ op = "coproduct"
    /\ parent.has_coproduct_on_basis
    /\ parent.has_coproduct_by_coercion
    /\ Cardinality(DOMAIN self) = 2
    /\ res = Ok(ByLinearity(parent.coproduct_on_basis, self, parent.basis))
    /\ res # Ok(ByLinearity(parent.coproduct_by_coercion, self, parent.basis))

\* ------------------------------------------------------ AlgebrasWithBasis
\* Bounds of the coefficients of the elements that are inverted: the
\* fractions a/b with |a| <= MaxNum and 1 <= b <= MaxDen.
MaxNum == 2
MaxDen == 2
\* Largest number of operands of a tensor or Cartesian product.
MaxOperands == 3

RECURSIVE GCD(_, _)
GCD(a, b) == IF b = 0 THEN a ELSE GCD(b, a % b)

Abs(a) == IF a < 0 THEN -a ELSE a

\* The fraction a/b in lowest terms with a positive denominator.
Fraction(a, b) ==
    LET g == GCD(Abs(a), Abs(b))
        s == IF b < 0 THEN -1 ELSE 1
    IN  <<s * (a \div g), s * (b \div g)>>

RatZero == <<0, 1>>

RatOne == <<1, 1>>

RatMul(p, q) == Fraction(p[1] * q[1], p[2] * q[2])

\* ~c of a non-zero coefficient c.
RatInv(c) == Fraction(c[2], c[1])

Rationals ==
    {Fraction(a, b) : a \in (-MaxNum .. MaxNum) \ {0}, b \in 1 .. MaxDen}

\* c * x
RatScale(c, x) ==
    IF c = RatZero THEN Zero ELSE [k \in DOMAIN x |-> RatMul(c, x[k])]

AlgebraBasis == {0, 1, 2}

\* The algebras with basis: one_basis is implemented when the one of the
\* algebra is a basis element; otherwise the one is a sum of basis elements
\* (as in a Cartesian product) and one_basis is NotImplemented.
AlgebraParents ==
    {[kind |-> "algebra", has_one_basis |-> TRUE, one_basis |-> i,
      one |-> term(i, RatOne)] : i \in AlgebraBasis}
      \cup {[kind |-> "algebra", has_one_basis |-> FALSE, one_basis |-> 0,
             one |-> [i \in {0, 1} |-> RatOne]]}

AlgebraElements ==
    {[k \in {j \in AlgebraBasis : v[j] # RatZero} |-> v[k]] :
        v \in [AlgebraBasis -> Rationals \cup {RatZero}]}

\* __invert__ inverting whenever the coefficient of one is not zero.
invert_any_support(P, x) ==
    IF ~P.has_one_basis THEN Raise("TypeError")
    ELSE IF P.one_basis \in DOMAIN x
         THEN Ok(term(P.one_basis, RatInv(x[P.one_basis])))
         ELSE Raise("ValueError")

\* ElementMethods.__invert__ of x in the parent P; x is its dictionary mcs.
\* Calling one_basis raises TypeError when it is NotImplemented.
__invert__(P, x) ==
    IF ~P.has_one_basis THEN Raise("TypeError")
    ELSE IF Cardinality(DOMAIN x) = 1 /\ P.one_basis \in DOMAIN x
         THEN Ok(term(P.one_basis, RatInv(x[P.one_basis])))
         ELSE Raise("ValueError")

\* An operand of a product: its attribute one_basis is missing, is
\* NotImplemented, or is a method returning an index.
Operands ==
    {[attr |-> "absent", one_basis |-> 0],
     [attr |-> "NotImplemented", one_basis |-> 0]}
      \cup {[attr |-> "method", one_basis |-> i] : i \in {0, 1}}

OperandTuples == UNION {[1 .. k -> Operands] : k \in 2 .. MaxOperands}

TensorParents == {[kind |-> "tensor", sets |-> S] : S \in OperandTuples}

CartesianParents == {[kind |-> "cartesian", sets |-> S] : S \in OperandTuples}

\* one_basis listing the operands from the last to the first.
one_basis_reversed(P) ==
    IF \A i \in DOMAIN P.sets : P.sets[i].attr # "absent"
    THEN IF \E i \in DOMAIN P.sets : P.sets[i].attr = "NotImplemented"
         THEN Raise("TypeError")
         ELSE Ok([i \in DOMAIN P.sets |->
                    P.sets[Len(P.sets) + 1 - i].one_basis])
    ELSE Raise("NotImplementedError")

\* TensorProducts.ParentMethods.one_basis: hasattr holds of an operand whose
\* one_basis is NotImplemented, and calling that raises TypeError.
one_basis(P) ==
    IF \A i \in DOMAIN P.sets : P.sets[i].attr # "absent"
    THEN IF \E i \in DOMAIN P.sets : P.sets[i].attr = "NotImplemented"
         THEN Raise("TypeError")
         ELSE Ok([i \in DOMAIN P.sets |-> P.sets[i].one_basis])
    ELSE Raise("NotImplementedError")

\* The sum of the basis elements indexed by the entries of seq.
sum_of_monomials(seq) ==
    [k \in {seq[i] : i \in DOMAIN seq} |->
        Cardinality({i \in DOMAIN seq : seq[i] = k})]

\* The keys of the summands of a Cartesian product: 0, 1, ...
sets_keys(P) == [i \in DOMAIN P.sets |-> i - 1]

\* The first operand whose one_basis cannot be called, and what calling it
\* raises.
FirstFailure(P) ==
    LET bad == {i \in DOMAIN P.sets : P.sets[i].attr # "method"}
        f == CHOOSE i \in bad : \A j \in bad : i <= j
    IN  Raise(IF P.sets[f].attr = "absent" THEN "AttributeError"
              ELSE "TypeError")

\* one_from_cartesian_product_of_one_basis without the keys of the summands.
one_without_keys(P) ==
    IF \A i \in DOMAIN P.sets : P.sets[i].attr = "method"
    THEN Ok(sum_of_monomials(
              [i \in DOMAIN P.sets |-> <<0, P.sets[i].one_basis>>]))
    ELSE FirstFailure(P)

\* CartesianProducts.ParentMethods.one_from_cartesian_product_of_one_basis
one_from_cartesian_product_of_one_basis(P) ==
    IF \A i \in DOMAIN P.sets : P.sets[i].attr = "method"
    THEN Ok(sum_of_monomials(
              [i \in DOMAIN P.sets |-> <<sets_keys(P)[i], P.sets[i].one_basis>>]))
    ELSE FirstFailure(P)

InitAlgebra ==
    /\ parent \in AlgebraParents \cup TensorParents \cup CartesianParents
    /\ op = "new"
    /\ self = Zero
    /\ n = 0
    /\ res = Ok(Zero)

\* ~x
Invert(x) ==
    /\ op = "new"
    /\ parent.kind = "algebra"
    /\ op' = "__invert__"
    /\ self' = x
    /\ res' = __invert__(parent, x)
    /\ UNCHANGED <<parent, n>>

\* parent.one_basis() of a tensor product
OneBasis ==
    /\ op = "new"
    /\ parent.kind = "tensor"
    /\ op' = "one_basis"
    /\ res' = one_basis(parent)
    /\ UNCHANGED <<parent, self, n>>

\* parent.one_from_cartesian_product_of_one_basis() of a Cartesian product
OneFromCartesianProduct ==
    /\ op = "new"
    /\ parent.kind = "cartesian"
    /\ op' = "one_from_cartesian_product_of_one_basis"
    /\ res' = one_from_cartesian_product_of_one_basis(parent)
    /\ UNCHANGED <<parent, self, n>>

NextAlgebra ==
    \/ \E x \in AlgebraElements : Invert(x)
    \/ OneBasis
    \/ OneFromCartesianProduct

SpecAlgebra == InitAlgebra /\ [][NextAlgebra]_vars

\* ------------------------------------------------ claims on the algebras
\* x is c * one for a coefficient c of C.
IsMultipleOfOne(x, C) == \E c \in C : x = RatScale(c, parent.one)

\* x * res = one, for x and res multiples of a one that is a basis element:
\* (c * one) * (d * one) = (c * d) * one.
ProductWithResultIsOne ==
    /\ DOMAIN res.val = {parent.one_basis}
    /\ DOMAIN self = {parent.one_basis}
    /\ RatMul(self[parent.one_basis], res.val[parent.one_basis]) = RatOne

AllProvideOneBasis == \A i \in DOMAIN parent.sets : parent.sets[i].attr = "method"

\* C6: when every operand of a tensor product provides one_basis, one_basis()
\* is the tuple of the one_basis() of the operands, in their order.
C6_TensorOneBasis ==
    (op = "one_basis" /\ AllProvideOneBasis) =>
        /\ res.tag = "ok"
        /\ Len(res.val) = Len(parent.sets)
        /\ \A i \in DOMAIN parent.sets : res.val[i] = parent.sets[i].one_basis

C6_Witness ==
    /\ op = "one_basis"
    /\ AllProvideOneBasis
    /\ Len(parent.sets) = 3
    /\ res = Ok(<<0, 1, 1>>)

\* C7: one_from_cartesian_product_of_one_basis() is the sum of the basis
\* elements indexed (i, one_basis of summand i): one term for each summand,
\* each with coefficient 1, and no other term.
C7_CartesianOne ==
    (op = "one_from_cartesian_product_of_one_basis" /\ AllProvideOneBasis) =>
        /\ res.tag = "ok"
        /\ DOMAIN res.val =
             {<<i - 1, parent.sets[i].one_basis>> : i \in DOMAIN parent.sets}
        /\ Cardinality(DOMAIN res.val) = Len(parent.sets)
        /\ \A k \in DOMAIN res.val : res.val[k] = 1

C7_Witness ==
    /\ op = "one_from_cartesian_product_of_one_basis"
    /\ AllProvideOneBasis
    /\ Len(parent.sets) = 3
    /\ parent.sets[1].one_basis = parent.sets[3].one_basis
    /\ DOMAIN res.val = {<<0, 1>>, <<1, 0>>, <<2, 1>>}
    /\ \A k \in DOMAIN res.val : res.val[k] = 1

====
